---- MODULE Spec2Model ----
(***************************************************************************)
(* The key-value storage service of kv-service/main.go: one kvServer with  *)
(* a map[string]string guarded by a sync.RWMutex, called concurrently by   *)
(* NumProcs request goroutines through Set, Get and Delete.                *)
(*                                                                         *)
(* Every handler is a chain of steps of one goroutine: the call, the       *)
(* acquisition of the mutex, the statements of the critical section and    *)
(* the return, which runs the deferred Unlock/RUnlock and hands the        *)
(* response to the caller.  A Go string is a two-word header (data, len);  *)
(* the store of a string into a map slot is not atomic, so the assignment  *)
(* s.store[k] = v is the slot lookup/insert and the data word followed by   *)
(* the len word.  Only the mutex keeps other goroutines from seeing the     *)
(* states in between.  A log.Printf writes no state of the server and      *)
(* belongs to the step of the statement before it; logged records it.      *)
(*                                                                         *)
(* The API server of api-service/main.go stands in front of it: a handler  *)
(* validates its HTTP request, calls the storage service through a         *)
(* pb.KVStoreClient under a context with a timeout, and maps the response  *)
(* or the error of the call to a status code and a JSON body.              *)
(*                                                                         *)
(* The specifications: Spec is the storage service called directly, with   *)
(* the mutex granted whenever it is free; LiveSpec the same service with   *)
(* the waiting of sync.RWMutex (rw) under fair scheduling; GwSpec          *)
(* (GwFairSpec with the passing of deadlines) the API server over any      *)
(* client; ServeSpec the API server over the storage service.              *)
(*                                                                         *)
(* The variables snap, last, how and scen are history variables: no action *)
(* reads them to decide what a server does.                                *)
(***************************************************************************)
EXTENDS Integers, Sequences, FiniteSets, TLC

\* Number of concurrent request goroutines.
NumProcs == 2
Procs == 1..NumProcs

\* Request keys: the empty key and a non-empty one.
Keys == {"", "a"}

\* Request values as character sequences: the empty string and a non-empty one.
Values == {<< >>, <<"x">>}

\* The character read beyond the end of a string's data.
Garbage == "?"

----------------------------------------------------------------------------
\* Go strings and maps

\* The header of the Go string with characters v.
StringHeader(v) == [data |-> v, len |-> Len(v)]

\* The characters a reader sees through header h: len characters from data.
Content(h) ==
    IF h.len <= Len(h.data)
    THEN SubSeq(h.data, 1, h.len)
    ELSE h.data \o [i \in 1..(h.len - Len(h.data)) |-> Garbage]

\* The zero value of the map's element type, the empty string.
ZeroValue == StringHeader(<< >>)

\* make(map[string]string): the empty map.
EmptyMap == [k \in {} |-> ZeroValue]

\* mapassign: the slot of key k, inserted with the zero value when absent.
MapAssign(m, k) ==
    IF k \in DOMAIN m THEN m ELSE [x \in DOMAIN m \cup {k} |-> IF x = k THEN ZeroValue ELSE m[x]]

\* A store of the data word that is left out.
StoreData_Skipped(m, k, v) == m

\* Store of the data word of v into the slot of k.
StoreData(m, k, v) == [m EXCEPT ![k].data = v]

\* A store of the len word that keeps the length of an entry already set.
StoreLen_KeepOld(m, k, v) == IF m[k].len # 0 THEN m ELSE [m EXCEPT ![k].len = Len(v)]

\* Store of the len word of v into the slot of k.
StoreLen(m, k, v) == [m EXCEPT ![k].len = Len(v)]

\* A lookup that reports every key as present.
MapLookup_AlwaysFound(m, k) ==
    [found |-> TRUE, value |-> IF k \in DOMAIN m THEN Content(m[k]) ELSE << >>]

\* value, found := m[k]
MapLookup(m, k) ==
    IF k \in DOMAIN m
    THEN [found |-> TRUE, value |-> Content(m[k])]
    ELSE [found |-> FALSE, value |-> << >>]

\* A delete that removes nothing.
MapDelete_Keep(m, k) == m

\* A delete that empties the map.
MapDelete_Clear(m, k) == EmptyMap

\* delete(m, k)
MapDelete(m, k) == [x \in DOMAIN m \ {k} |-> m[x]]

----------------------------------------------------------------------------
\* sync.RWMutex: w is TRUE while a writer holds it, r counts the readers.

FreeMutex == [w |-> FALSE, r |-> 0]

\* No goroutine waits inside Lock or RLock.  pending is the writer that has
\* announced itself inside Lock and waits for the readers to leave (0 for
\* none), blocked the readers that wait inside RLock for a writer, admitted
\* the readers that the writer's Unlock has let in.
NoWaiters == [pending |-> 0, blocked |-> {}, admitted |-> {}]

\* A Lock that does not wait for the readers.
CanLock_IgnoreReaders(m) == ~m.w

\* A Lock that does not wait for another writer.
CanLock_IgnoreWriter(m) == m.r = 0

\* Lock proceeds when no writer and no reader holds the mutex.
CanLock(m) == ~m.w /\ m.r = 0

\* An RLock that does not wait for the writer.
CanRLock_IgnoreWriter(m) == TRUE

\* RLock proceeds when no writer holds the mutex.
CanRLock(m) == ~m.w

\* A Lock that leaves the mutex free.
Lock_NotExclusive(m) == m

Lock(m) == [m EXCEPT !.w = TRUE]

\* A return path that leaves the mutex locked.
Unlock_Skipped(m) == m

Unlock(m) == [m EXCEPT !.w = FALSE]
RLock(m) == [m EXCEPT !.r = @ + 1]
RUnlock(m) == [m EXCEPT !.r = @ - 1]

----------------------------------------------------------------------------
\* Responses of the three handlers (the error result is nil in all of them).

\* A Set that rejects the empty key.
SetResponse_RejectEmpty(k) ==
    [op |-> "Set", success |-> k # "", found |-> FALSE, value |-> << >>,
     message |-> <<"Key '", k, "' set successfully">>, err |-> "nil"]

SetResponse(k) ==
    [op |-> "Set", success |-> TRUE, found |-> FALSE, value |-> << >>,
     message |-> <<"Key '", k, "' set successfully">>, err |-> "nil"]

\* A Get without the check of found.
GetResponse_NoFoundCheck(k, l) ==
    [op |-> "Get", success |-> FALSE, found |-> TRUE, value |-> l.value,
     message |-> <<"Key retrieved successfully">>, err |-> "nil"]

GetResponse(k, l) ==
    IF ~l.found
    THEN [op |-> "Get", success |-> FALSE, found |-> FALSE, value |-> << >>,
          message |-> <<"Key '", k, "' not found">>, err |-> "nil"]
    ELSE [op |-> "Get", success |-> FALSE, found |-> TRUE, value |-> l.value,
          message |-> <<"Key retrieved successfully">>, err |-> "nil"]

\* A Delete that reports success whether or not the key was found.
DeleteResponse_AlwaysSuccess(k, l) ==
    [op |-> "Delete", success |-> TRUE, found |-> FALSE, value |-> << >>,
     message |-> <<"Key '", k, "' deleted successfully">>, err |-> "nil"]

\* A Delete that returns an error for a key that is absent.
DeleteResponse_ErrorOnAbsent(k, l) ==
    IF ~l.found
    THEN [op |-> "Delete", success |-> FALSE, found |-> FALSE, value |-> << >>,
          message |-> << >>, err |-> "NotFound"]
    ELSE [op |-> "Delete", success |-> TRUE, found |-> FALSE, value |-> << >>,
          message |-> <<"Key '", k, "' deleted successfully">>, err |-> "nil"]

DeleteResponse(k, l) ==
    IF ~l.found
    THEN [op |-> "Delete", success |-> FALSE, found |-> FALSE, value |-> << >>,
          message |-> <<"Key '", k, "' not found">>, err |-> "nil"]
    ELSE [op |-> "Delete", success |-> TRUE, found |-> FALSE, value |-> << >>,
          message |-> <<"Key '", k, "' deleted successfully">>, err |-> "nil"]

NoResponse ==
    [op |-> "none", success |-> FALSE, found |-> FALSE, value |-> << >>,
     message |-> << >>, err |-> "nil"]

NoRequest == [op |-> "none", key |-> "", value |-> << >>]
NoLocals == [found |-> FALSE, value |-> << >>]

----------------------------------------------------------------------------
\* api-service: the HTTP handlers of APIServer over a pb.KVStoreClient.

\* The net/http status codes the handlers answer with.
StatusOK == 200
StatusBadRequest == 400
StatusNotFound == 404
StatusInternalServerError == 500

\* The fields of the JSON payload of POST /kv.
Fields == {"key", "value"}

\* The payloads of POST /kv: has is the set of fields the JSON object carries.
Payloads ==
    {pl \in [has : SUBSET Fields, key : Keys, value : Values] :
        /\ ("key" \notin pl.has => pl.key = "")
        /\ ("value" \notin pl.has => pl.value = << >>)}

\* The HTTP requests of the three routes.  In GET and DELETE /kv/:key the key
\* is c.Param("key"), the empty string when the path carries none.
PostKV(pl) == [op |-> "Set", has |-> pl.has, key |-> pl.key, value |-> pl.value]
GetKV(k) == [op |-> "Get", has |-> IF k = "" THEN {} ELSE {"key"}, key |-> k, value |-> << >>]
DeleteKV(k) == [op |-> "Delete", has |-> IF k = "" THEN {} ELSE {"key"}, key |-> k, value |-> << >>]
NoHTTPRequest == [op |-> "none", has |-> {}, key |-> "", value |-> << >>]

\* encoding/json into a SetRequest: a field the payload lacks keeps the zero
\* value of its type, the empty string.
Unmarshal(r) ==
    [Key |-> IF "key" \in r.has THEN r.key ELSE "",
     Value |-> IF "value" \in r.has THEN r.value ELSE << >>]

\* A binding that validates nothing.
ShouldBindJSON_NoValidation(r) == [req |-> Unmarshal(r), err |-> "nil"]

\* c.ShouldBindJSON(&req): the payload is unmarshalled, then binding:"required"
\* is validated on the struct; it fails on a field that holds its zero value.
ShouldBindJSON(r) ==
    LET q == Unmarshal(r)
    IN  [req |-> q,
         err |-> IF q.Key = "" THEN "Key: required"
                 ELSE IF q.Value = << >> THEN "Value: required"
                 ELSE "nil"]

\* A key check that lets every key through.
KeyMissing_Never(k) == FALSE

\* key := c.Param("key"); if key == ""
KeyMissing(k) == k = ""

\* context.Background() and context.WithTimeout(parent, 5*time.Second): the
\* derived context carries a deadline, at which a call under it fails.
Background == [deadline |-> FALSE]

\* A context derived without a deadline.
WithTimeout_NoDeadline(parent) == parent

WithTimeout(parent) == [deadline |-> TRUE]

\* A request to the storage service that leaves the value out.
PbSetRequest_NoValue(q) == [op |-> "Set", key |-> q.Key, value |-> << >>]

\* The requests handed to kvClient: &pb.SetRequest{Key: req.Key, Value: req.Value},
\* &pb.GetRequest{Key: key} and &pb.DeleteRequest{Key: key}.
PbSetRequest(q) == [op |-> "Set", key |-> q.Key, value |-> q.Value]
PbGetRequest(k) == [op |-> "Get", key |-> k, value |-> << >>]
PbDeleteRequest(k) == [op |-> "Delete", key |-> k, value |-> << >>]

\* What an implementation of pb.KVStoreClient may return with a nil error.
ClientResponses(op) ==
    IF op = "Set"
    THEN {[op |-> "Set", success |-> s, found |-> FALSE, value |-> << >>,
           message |-> <<"set">>, err |-> "nil"] : s \in BOOLEAN}
    ELSE IF op = "Get"
    THEN {[op |-> "Get", success |-> FALSE, found |-> f, value |-> v,
           message |-> <<"get">>, err |-> "nil"] : f \in BOOLEAN, v \in Values}
    ELSE {[op |-> "Delete", success |-> s, found |-> FALSE, value |-> << >>,
           message |-> <<"delete">>, err |-> "nil"] : s \in BOOLEAN}

\* encoding/json of the response bodies.  A JSON object is the function from
\* the names of its fields; a field tagged omitempty is left out when it holds
\* the empty string.
EmptyObject == [f \in {} |-> << >>]
ErrorResponseJSON(e) == [error |-> e]
SetResponseJSON(r) == [success |-> r.Success, message |-> r.Message]
DeleteResponseJSON(r) == [success |-> r.Success, message |-> r.Message]
GetResponseJSON(r) ==
    [found |-> r.Found, message |-> r.Message]
        @@ (IF r.Key = "" THEN EmptyObject ELSE [key |-> r.Key])
        @@ (IF r.Value = << >> THEN EmptyObject ELSE [value |-> r.Value])

\* c.JSON(status, body)
JSON(status, body) == [status |-> status, body |-> body]

\* A SetHandler that answers success = false as DeleteHandler does.
SetHandlerAnswer_SuccessCheck(resp, err) ==
    IF err # "nil"
    THEN JSON(StatusInternalServerError, ErrorResponseJSON(<<"Failed to set key: ", err>>))
    ELSE IF ~resp.success
    THEN JSON(StatusNotFound, SetResponseJSON([Success |-> FALSE, Message |-> resp.message]))
    ELSE JSON(StatusOK, SetResponseJSON([Success |-> resp.success, Message |-> resp.message]))

\* SetHandler once kvClient.Set has returned (resp, err).
SetHandlerAnswer(resp, err) ==
    IF err # "nil"
    THEN JSON(StatusInternalServerError, ErrorResponseJSON(<<"Failed to set key: ", err>>))
    ELSE JSON(StatusOK, SetResponseJSON([Success |-> resp.success, Message |-> resp.message]))

\* A GetHandler that answers a failed call as a key not found.
GetHandlerAnswer_ErrorAsNotFound(key, resp, err) ==
    IF err # "nil" \/ ~resp.found
    THEN JSON(StatusNotFound, GetResponseJSON([Found |-> FALSE, Message |-> resp.message,
                                               Key |-> "", Value |-> << >>]))
    ELSE JSON(StatusOK, GetResponseJSON([Found |-> TRUE, Message |-> resp.message,
                                         Key |-> key, Value |-> resp.value]))

\* A GetHandler without the check of resp.Found.
GetHandlerAnswer_NoFoundCheck(key, resp, err) ==
    IF err # "nil"
    THEN JSON(StatusInternalServerError, ErrorResponseJSON(<<"Failed to get key: ", err>>))
    ELSE JSON(StatusOK, GetResponseJSON([Found |-> TRUE, Message |-> resp.message,
                                         Key |-> key, Value |-> resp.value]))

\* GetHandler once kvClient.Get has returned (resp, err).
GetHandlerAnswer(key, resp, err) ==
    IF err # "nil"
    THEN JSON(StatusInternalServerError, ErrorResponseJSON(<<"Failed to get key: ", err>>))
    ELSE IF ~resp.found
    THEN JSON(StatusNotFound, GetResponseJSON([Found |-> FALSE, Message |-> resp.message,
                                               Key |-> "", Value |-> << >>]))
    ELSE JSON(StatusOK, GetResponseJSON([Found |-> TRUE, Message |-> resp.message,
                                         Key |-> key, Value |-> resp.value]))

\* A DeleteHandler without the check of resp.Success.
DeleteHandlerAnswer_NoSuccessCheck(resp, err) ==
    IF err # "nil"
    THEN JSON(StatusInternalServerError, ErrorResponseJSON(<<"Failed to delete key: ", err>>))
    ELSE JSON(StatusOK, DeleteResponseJSON([Success |-> resp.success, Message |-> resp.message]))

\* DeleteHandler once kvClient.Delete has returned (resp, err).
DeleteHandlerAnswer(resp, err) ==
    IF err # "nil"
    THEN JSON(StatusInternalServerError, ErrorResponseJSON(<<"Failed to delete key: ", err>>))
    ELSE IF ~resp.success
    THEN JSON(StatusNotFound, DeleteResponseJSON([Success |-> FALSE, Message |-> resp.message]))
    ELSE JSON(StatusOK, DeleteResponseJSON([Success |-> resp.success, Message |-> resp.message]))

\* A handler that is serving no request, and no answer in the last step.
\* calls counts the calls of kvClient the handler has made for its request.
IdleHandler ==
    [st |-> "idle", req |-> NoHTTPRequest, call |-> NoRequest, calls |-> 0,
     ctx |-> Background]
NoAnswer ==
    [req |-> NoHTTPRequest, call |-> NoRequest, calls |-> 0, status |-> 0,
     body |-> EmptyObject, resp |-> NoResponse, err |-> "nil"]

\* A handler that calls kvClient once more when its first call failed.
Retries_OnceOnError(err, calls) == err # "nil" /\ calls < 2

\* After (resp, err) the handlers go on to their answer whatever err is: no
\* statement of theirs leads back to the call of kvClient.
Retries(err, calls) == FALSE

\* The requests of TestIntegrationSetGetDelete, in their order.
Scenario ==
    << PostKV([has |-> Fields, key |-> "a", value |-> <<"x">>]),
       GetKV("a"), DeleteKV("a"), GetKV("a") >>

----------------------------------------------------------------------------
VARIABLES
    store,    \* kvServer.store: the map from key to string header
    mu,       \* kvServer.mu
    pc,       \* position of every goroutine in its handler
    req,      \* the request of the call a goroutine is in
    loc,      \* the handler's local variables found and value
    ret,      \* the call that returned in the last step, with its response
    snap,     \* history: the store as the goroutine acquired the mutex
    last,     \* history: per key, the write that returned last
    how,      \* history: how a call relates to the other calls
    logged,   \* the log.Printf of the last step: the goroutine and the line
    rw,       \* kvServer.mu: the goroutines waiting inside Lock and RLock
    gw,       \* the API server's handler of every request goroutine
    gwret,    \* the HTTP response written in the last step, with its request
    scen      \* history: the requests served one after another since the start

\* The variables of the storage service and those of the API server.
kvvars == <<store, mu, pc, req, loc, ret, snap, last, how, logged, rw>>
gwvars == <<gw, gwret, scen>>
vars == <<kvvars, gwvars>>

IsWrite(r) == r.op \in {"Set", "Delete"}

\* Positions between the acquisition and the release of the mutex.
WriterInside == {"set_assign", "set_store", "set_ret", "delete_lookup", "delete_remove", "delete_ret"}
ReaderInside == {"get_lookup", "get_ret"}

NoWrite == [op |-> "none", value |-> << >>]

NoReturn == [op |-> "none", key |-> "", value |-> << >>, resp |-> NoResponse,
             how |-> "conc", prev |-> NoWrite, before |-> EmptyMap]

\* The return r is that of a Set which replaced the different value of the
\* Set that returned before it on its key.
Overwrote(r) == r.op = "Set" /\ r.prev.op = "Set" /\ r.prev.value # r.value

\* No log.Printf in the last step.
NoLog == [by |-> 0, line |-> 0]

\* log.Printf at the given line of kv-service/main.go by goroutine p: a
\* write to the standard logger, made where the statement stands.
LogPrintf(p, line) == [by |-> p, line |-> line]

\* Goroutine p holds the mutex, exclusively or shared.
HoldsLock(p) == pc[p] \in WriterInside \cup ReaderInside

\* The values of how.  A call is alone while every other goroutine has been
\* idle since it began; it is late once a write of its key has returned
\* since it began (a write that it overlapped was applied before it).
Alone == {"alone", "alone_over", "alone_deleted"}

\* how of a call on key k that begins in the step after the return r.
HowCalled(p, r, k) ==
    IF \E q \in Procs \ {p} : pc[q] # "idle" THEN "conc"
    ELSE IF r.key = k /\ Overwrote(r) /\ r.how \in Alone THEN "alone_over"
    ELSE IF r.key = k /\ r.op = "Delete" /\ r.resp.success THEN "alone_deleted"
    ELSE "alone"

\* History kept at the call of an operation on key k by goroutine p.
CallHistory(p, k) ==
    /\ how' = [q \in Procs |->
                 IF q = p THEN HowCalled(p, ret, k)
                 ELSE IF how[q] \in Alone THEN "conc"
                 ELSE how[q]]
    /\ ret' = NoReturn
    /\ logged' = NoLog
    /\ UNCHANGED <<snap, last>>

\* History kept at the acquisition of the mutex by goroutine p.
LockHistory(p) ==
    /\ snap' = [snap EXCEPT ![p] = store]
    /\ ret' = NoReturn
    /\ logged' = NoLog
    /\ UNCHANGED <<last, how>>

\* History kept by a step inside a critical section.
StepHistory ==
    /\ ret' = NoReturn
    /\ UNCHANGED <<snap, last, how>>

\* History kept at the return of goroutine p with response r.
ReturnHistory(p, r) ==
    LET k == req[p].key
        w == IsWrite(req[p])
    IN  /\ ret' = [op |-> req[p].op, key |-> k, value |-> req[p].value, resp |-> r,
                   how |-> how[p], prev |-> last[k], before |-> snap[p]]
        /\ last' = IF w
                   THEN [last EXCEPT ![k] = [op |-> req[p].op, value |-> req[p].value]]
                   ELSE last
        /\ how' = [q \in Procs |->
                     IF q = p THEN "conc"
                     ELSE IF w /\ pc[q] # "idle" /\ req[q].key = k THEN "late"
                     ELSE how[q]]
        /\ snap' = [snap EXCEPT ![p] = EmptyMap]
        /\ logged' = NoLog

Init ==
    /\ store = EmptyMap
    /\ mu = FreeMutex
    /\ pc = [p \in Procs |-> "idle"]
    /\ req = [p \in Procs |-> NoRequest]
    /\ loc = [p \in Procs |-> NoLocals]
    /\ ret = NoReturn
    /\ last = [k \in Keys |-> NoWrite]
    /\ snap = [p \in Procs |-> EmptyMap]
    /\ how = [p \in Procs |-> "conc"]
    /\ logged = NoLog
    /\ rw = NoWaiters
    /\ gw = [p \in Procs |-> IdleHandler]
    /\ gwret = NoAnswer
    /\ scen = [at |-> 0, live |-> TRUE]

----------------------------------------------------------------------------
\* kvServer.Set

SetCall(p, k, v) ==
    /\ pc[p] = "idle"
    /\ pc' = [pc EXCEPT ![p] = "set_lock"]
    /\ req' = [req EXCEPT ![p] = [op |-> "Set", key |-> k, value |-> v]]
    /\ CallHistory(p, k)
    /\ UNCHANGED <<store, mu, loc>>

\* s.mu.Lock()
SetLock(p) ==
    /\ pc[p] = "set_lock"
    /\ CanLock(mu)
    /\ mu' = Lock(mu)
    /\ pc' = [pc EXCEPT ![p] = "set_assign"]
    /\ LockHistory(p)
    /\ UNCHANGED <<store, req, loc>>

\* s.store[req.Key] = req.Value: the slot and the data word
SetAssign(p) ==
    /\ pc[p] = "set_assign"
    /\ store' = StoreData(MapAssign(store, req[p].key), req[p].key, req[p].value)
    /\ pc' = [pc EXCEPT ![p] = "set_store"]
    /\ logged' = NoLog
    /\ StepHistory
    /\ UNCHANGED <<mu, req, loc>>

\* s.store[req.Key] = req.Value: the len word; log.Printf("Set: ...")
SetStore(p) ==
    /\ pc[p] = "set_store"
    /\ store' = StoreLen(MapAssign(store, req[p].key), req[p].key, req[p].value)
    /\ pc' = [pc EXCEPT ![p] = "set_ret"]
    /\ logged' = LogPrintf(p, 33)
    /\ StepHistory
    /\ UNCHANGED <<mu, req, loc>>

\* return &pb.SetResponse{...}, nil with the deferred s.mu.Unlock()
SetReturn(p) ==
    /\ pc[p] = "set_ret"
    /\ mu' = Unlock(mu)
    /\ pc' = [pc EXCEPT ![p] = "idle"]
    /\ req' = [req EXCEPT ![p] = NoRequest]
    /\ ReturnHistory(p, SetResponse(req[p].key))
    /\ UNCHANGED <<store, loc>>

----------------------------------------------------------------------------
\* kvServer.Get

GetCall(p, k) ==
    /\ pc[p] = "idle"
    /\ pc' = [pc EXCEPT ![p] = "get_lock"]
    /\ req' = [req EXCEPT ![p] = [op |-> "Get", key |-> k, value |-> << >>]]
    /\ CallHistory(p, k)
    /\ UNCHANGED <<store, mu, loc>>

\* s.mu.RLock()
GetRLock(p) ==
    /\ pc[p] = "get_lock"
    /\ CanRLock(mu)
    /\ mu' = RLock(mu)
    /\ pc' = [pc EXCEPT ![p] = "get_lookup"]
    /\ LockHistory(p)
    /\ UNCHANGED <<store, req, loc>>

\* value, found := s.store[req.Key]; log.Printf("Get: ...")
GetLookup(p) ==
    /\ pc[p] = "get_lookup"
    /\ loc' = [loc EXCEPT ![p] = MapLookup(store, req[p].key)]
    /\ pc' = [pc EXCEPT ![p] = "get_ret"]
    /\ logged' = LogPrintf(p, 47)
    /\ StepHistory
    /\ UNCHANGED <<store, mu, req>>

\* return &pb.GetResponse{...}, nil with the deferred s.mu.RUnlock()
GetReturn(p) ==
    /\ pc[p] = "get_ret"
    /\ mu' = RUnlock(mu)
    /\ loc' = [loc EXCEPT ![p] = NoLocals]
    /\ req' = [req EXCEPT ![p] = NoRequest]
    /\ pc' = [pc EXCEPT ![p] = "idle"]
    /\ ReturnHistory(p, GetResponse(req[p].key, loc[p]))
    /\ UNCHANGED <<store>>

----------------------------------------------------------------------------
\* kvServer.Delete

DeleteCall(p, k) ==
    /\ pc[p] = "idle"
    /\ pc' = [pc EXCEPT ![p] = "delete_lock"]
    /\ req' = [req EXCEPT ![p] = [op |-> "Delete", key |-> k, value |-> << >>]]
    /\ CallHistory(p, k)
    /\ UNCHANGED <<store, mu, loc>>

\* s.mu.Lock()
DeleteLock(p) ==
    /\ pc[p] = "delete_lock"
    /\ CanLock(mu)
    /\ mu' = Lock(mu)
    /\ pc' = [pc EXCEPT ![p] = "delete_lookup"]
    /\ LockHistory(p)
    /\ UNCHANGED <<store, req, loc>>

\* _, found := s.store[req.Key]; if !found { log.Printf("Delete: ... not found"); return ... }
DeleteLookup(p) ==
    /\ pc[p] = "delete_lookup"
    /\ loc' = [loc EXCEPT ![p] = [found |-> MapLookup(store, req[p].key).found, value |-> << >>]]
    /\ pc' = [pc EXCEPT ![p] =
                IF MapLookup(store, req[p].key).found THEN "delete_remove" ELSE "delete_ret"]
    /\ logged' = IF MapLookup(store, req[p].key).found THEN NoLog ELSE LogPrintf(p, 71)
    /\ StepHistory
    /\ UNCHANGED <<store, mu, req>>

\* delete(s.store, req.Key); log.Printf("Delete: ...")
DeleteRemove(p) ==
    /\ pc[p] = "delete_remove"
    /\ store' = MapDelete(store, req[p].key)
    /\ pc' = [pc EXCEPT ![p] = "delete_ret"]
    /\ logged' = LogPrintf(p, 79)
    /\ StepHistory
    /\ UNCHANGED <<mu, req, loc>>

\* return &pb.DeleteResponse{...}, nil with the deferred s.mu.Unlock()
DeleteReturn(p) ==
    /\ pc[p] = "delete_ret"
    /\ mu' = Unlock(mu)
    /\ loc' = [loc EXCEPT ![p] = NoLocals]
    /\ req' = [req EXCEPT ![p] = NoRequest]
    /\ pc' = [pc EXCEPT ![p] = "idle"]
    /\ ReturnHistory(p, DeleteResponse(req[p].key, loc[p]))
    /\ UNCHANGED <<store>>

----------------------------------------------------------------------------
\* The storage service called directly by every goroutine; the API server idle.
Next ==
    \/ \E p \in Procs, k \in Keys, v \in Values : SetCall(p, k, v) /\ UNCHANGED <<rw, gwvars>>
    \/ \E p \in Procs : SetLock(p) /\ UNCHANGED <<rw, gwvars>>
    \/ \E p \in Procs : SetAssign(p) /\ UNCHANGED <<rw, gwvars>>
    \/ \E p \in Procs : SetStore(p) /\ UNCHANGED <<rw, gwvars>>
    \/ \E p \in Procs : SetReturn(p) /\ UNCHANGED <<rw, gwvars>>
    \/ \E p \in Procs, k \in Keys : GetCall(p, k) /\ UNCHANGED <<rw, gwvars>>
    \/ \E p \in Procs : GetRLock(p) /\ UNCHANGED <<rw, gwvars>>
    \/ \E p \in Procs : GetLookup(p) /\ UNCHANGED <<rw, gwvars>>
    \/ \E p \in Procs : GetReturn(p) /\ UNCHANGED <<rw, gwvars>>
    \/ \E p \in Procs, k \in Keys : DeleteCall(p, k) /\ UNCHANGED <<rw, gwvars>>
    \/ \E p \in Procs : DeleteLock(p) /\ UNCHANGED <<rw, gwvars>>
    \/ \E p \in Procs : DeleteLookup(p) /\ UNCHANGED <<rw, gwvars>>
    \/ \E p \in Procs : DeleteRemove(p) /\ UNCHANGED <<rw, gwvars>>
    \/ \E p \in Procs : DeleteReturn(p) /\ UNCHANGED <<rw, gwvars>>

Spec == Init /\ [][Next]_vars

TypeOK ==
    /\ DOMAIN store \subseteq Keys
    /\ mu.r \in 0..NumProcs
    /\ \A p \in Procs : req[p].key \in Keys
    /\ rw.pending \in 0..NumProcs
    /\ rw.blocked \cup rw.admitted \subseteq Procs

----------------------------------------------------------------------------
\* The handlers of the API server.  A handler runs in the goroutine of its
\* HTTP request: it validates the request and either answers at once or calls
\* kvClient and waits for (resp, err), from which it writes its answer.

\* The answer of the handler of g to its request, written by c.JSON.
Answer(r, call, calls, a, resp, err) ==
    [req |-> r, call |-> call, calls |-> calls, status |-> a.status, body |-> a.body,
     resp |-> resp, err |-> err]

\* The handler of g calls kvClient with request q under a context with timeout.
CallClient(g, r, q) ==
    /\ gw' = [gw EXCEPT ![g] = [st |-> "wait", req |-> r, call |-> q,
                                 calls |-> gw[g].calls + 1,
                                 ctx |-> WithTimeout(Background)]]
    /\ gwret' = NoAnswer

\* SetHandler up to s.kvClient.Set(ctx, ...)
SetHandler(g, pl) ==
    LET b == ShouldBindJSON(PostKV(pl))
    IN  /\ gw[g].st = "idle"
        /\ IF b.err # "nil"
           THEN /\ gwret' = Answer(PostKV(pl), NoRequest, 0,
                                   JSON(StatusBadRequest,
                                        ErrorResponseJSON(<<"Invalid request: ", b.err>>)),
                                   NoResponse, "nil")
                /\ UNCHANGED gw
           ELSE CallClient(g, PostKV(pl), PbSetRequest(b.req))

\* GetHandler up to s.kvClient.Get(ctx, ...)
GetHandler(g, k) ==
    /\ gw[g].st = "idle"
    /\ IF KeyMissing(k)
       THEN /\ gwret' = Answer(GetKV(k), NoRequest, 0,
                               JSON(StatusBadRequest,
                                    ErrorResponseJSON(<<"Key parameter is required">>)),
                               NoResponse, "nil")
            /\ UNCHANGED gw
       ELSE CallClient(g, GetKV(k), PbGetRequest(k))

\* DeleteHandler up to s.kvClient.Delete(ctx, ...)
DeleteHandler(g, k) ==
    /\ gw[g].st = "idle"
    /\ IF KeyMissing(k)
       THEN /\ gwret' = Answer(DeleteKV(k), NoRequest, 0,
                               JSON(StatusBadRequest,
                                    ErrorResponseJSON(<<"Key parameter is required">>)),
                               NoResponse, "nil")
            /\ UNCHANGED gw
       ELSE CallClient(g, DeleteKV(k), PbDeleteRequest(k))

\* The rest of the handler of g, from the return (resp, err) of kvClient.
HandlerReturn(g, resp, err) ==
    /\ gw[g].st = "wait"
    /\ IF Retries(err, gw[g].calls)
       THEN /\ gw' = [gw EXCEPT ![g].calls = @ + 1]
            /\ gwret' = NoAnswer
       ELSE /\ gwret' = Answer(gw[g].req, gw[g].call, gw[g].calls,
                               IF gw[g].req.op = "Set" THEN SetHandlerAnswer(resp, err)
                               ELSE IF gw[g].req.op = "Get"
                               THEN GetHandlerAnswer(gw[g].req.key, resp, err)
                               ELSE DeleteHandlerAnswer(resp, err),
                               resp, err)
            /\ gw' = [gw EXCEPT ![g] = IdleHandler]

\* A step in which the storage service, or the API server, does nothing.
KVQuiet ==
    /\ ret' = NoReturn
    /\ logged' = NoLog
    /\ UNCHANGED <<store, mu, pc, req, loc, snap, last, how, rw>>
GwQuiet ==
    /\ gwret' = NoAnswer
    /\ UNCHANGED <<gw, scen>>

----------------------------------------------------------------------------
\* The API server over any implementation of pb.KVStoreClient (as the
\* mockKVClient of the handler tests): a call returns some response with a nil
\* error, fails, or is still without a response at the deadline of its context.

ClientSet(g, pl) == SetHandler(g, pl) /\ KVQuiet /\ UNCHANGED scen
ClientGet(g, k) == GetHandler(g, k) /\ KVQuiet /\ UNCHANGED scen
ClientDelete(g, k) == DeleteHandler(g, k) /\ KVQuiet /\ UNCHANGED scen

ClientReturns(g, r) ==
    /\ r \in ClientResponses(gw[g].call.op)
    /\ HandlerReturn(g, r, "nil")
    /\ KVQuiet /\ UNCHANGED scen

ClientFails(g) ==
    /\ HandlerReturn(g, NoResponse, "Unavailable")
    /\ KVQuiet /\ UNCHANGED scen

ClientTimesOut(g) ==
    /\ gw[g].ctx.deadline
    /\ HandlerReturn(g, NoResponse, "DeadlineExceeded")
    /\ KVQuiet /\ UNCHANGED scen

AllResponses == ClientResponses("Set") \cup ClientResponses("Get") \cup ClientResponses("Delete")

GwNext ==
    \/ \E g \in Procs, pl \in Payloads : ClientSet(g, pl)
    \/ \E g \in Procs, k \in Keys : ClientGet(g, k)
    \/ \E g \in Procs, k \in Keys : ClientDelete(g, k)
    \/ \E g \in Procs, r \in AllResponses : ClientReturns(g, r)
    \/ \E g \in Procs : ClientFails(g)
    \/ \E g \in Procs : ClientTimesOut(g)

GwSpec == Init /\ [][GwNext]_vars

\* The deadline of a context passes: a call that has a deadline and is left
\* without a response does not wait forever.
GwFairSpec == GwSpec /\ \A g \in Procs : WF_vars(ClientTimesOut(g))

----------------------------------------------------------------------------
\* The API server over a storage service it reaches: the call of the handler
\* of g is served by goroutine g of kvServer, whose return is the response of
\* the call, and no call fails.

\* History: scen.at requests of Scenario were made since the start, each after
\* the answer to the one before, and no other request was made.
Rest == \A p \in Procs : gw[p].st = "idle" /\ pc[p] = "idle"
ScenRequest(r) ==
    scen' = IF scen.live /\ Rest /\ scen.at < Len(Scenario) /\ r = Scenario[scen.at + 1]
            THEN [at |-> scen.at + 1, live |-> TRUE]
            ELSE [at |-> 0, live |-> FALSE]

ServeSet(g, pl) ==
    /\ SetHandler(g, pl)
    /\ IF gw'[g].st = "wait"
       THEN SetCall(g, gw'[g].call.key, gw'[g].call.value)
       ELSE KVQuiet
    /\ ScenRequest(PostKV(pl))
    /\ UNCHANGED rw

ServeGet(g, k) ==
    /\ GetHandler(g, k)
    /\ IF gw'[g].st = "wait" THEN GetCall(g, gw'[g].call.key) ELSE KVQuiet
    /\ ScenRequest(GetKV(k))
    /\ UNCHANGED rw

ServeDelete(g, k) ==
    /\ DeleteHandler(g, k)
    /\ IF gw'[g].st = "wait" THEN DeleteCall(g, gw'[g].call.key) ELSE KVQuiet
    /\ ScenRequest(DeleteKV(k))
    /\ UNCHANGED rw

\* kvServer returns in goroutine g and the handler of g gets the response.
ServeReturn(g) ==
    /\ SetReturn(g) \/ GetReturn(g) \/ DeleteReturn(g)
    /\ HandlerReturn(g, ret'.resp, "nil")
    /\ UNCHANGED <<scen, rw>>

ServeNext ==
    \/ \E g \in Procs, pl \in Payloads : ServeSet(g, pl)
    \/ \E g \in Procs, k \in Keys : ServeGet(g, k)
    \/ \E g \in Procs, k \in Keys : ServeDelete(g, k)
    \/ \E g \in Procs : ServeReturn(g)
    \/ \E p \in Procs : SetLock(p) /\ GwQuiet /\ UNCHANGED rw
    \/ \E p \in Procs : SetAssign(p) /\ GwQuiet /\ UNCHANGED rw
    \/ \E p \in Procs : SetStore(p) /\ GwQuiet /\ UNCHANGED rw
    \/ \E p \in Procs : GetRLock(p) /\ GwQuiet /\ UNCHANGED rw
    \/ \E p \in Procs : GetLookup(p) /\ GwQuiet /\ UNCHANGED rw
    \/ \E p \in Procs : DeleteLock(p) /\ GwQuiet /\ UNCHANGED rw
    \/ \E p \in Procs : DeleteLookup(p) /\ GwQuiet /\ UNCHANGED rw
    \/ \E p \in Procs : DeleteRemove(p) /\ GwQuiet /\ UNCHANGED rw

ServeSpec == Init /\ [][ServeNext]_vars
----------------------------------------------------------------------------
\* The storage service with the mutex as sync.RWMutex grants it.  Spec lets
\* any goroutine acquire the mutex whenever it is free for it; the schedules
\* here are those of Spec in which Lock and RLock wait as the mutex makes
\* them wait.  Lock first takes its turn among the writers and announces
\* itself; from then on a new reader blocks in RLock, and the writer acquires
\* the mutex once the readers inside have left.  Unlock lets in the readers
\* that blocked, and the next writer waits for them.  The calls are those on
\* one key with one value; the key is absent at first.

LiveKey == "a"
LiveValue == <<"x">>

LiveSetCall(p) == SetCall(p, LiveKey, LiveValue) /\ UNCHANGED <<rw, gwvars>>
LiveGetCall(p) == GetCall(p, LiveKey) /\ UNCHANGED <<rw, gwvars>>
LiveDeleteCall(p) == DeleteCall(p, LiveKey) /\ UNCHANGED <<rw, gwvars>>

\* Inside s.mu.Lock(): p has its turn among the writers and announces itself.
WriterPending(p) ==
    /\ pc[p] \in {"set_lock", "delete_lock"}
    /\ rw.pending = 0 /\ ~mu.w
    /\ rw' = [rw EXCEPT !.pending = p]
    /\ ret' = NoReturn
    /\ logged' = NoLog
    /\ UNCHANGED <<store, mu, pc, req, loc, snap, last, how, gwvars>>

\* s.mu.Lock() returns: the readers have left.
WriterAcquire(p) ==
    /\ rw.pending = p /\ rw.admitted = {}
    /\ SetLock(p) \/ DeleteLock(p)
    /\ rw' = [rw EXCEPT !.pending = 0]
    /\ UNCHANGED gwvars

\* Inside s.mu.RLock(): a writer is pending or inside, and p blocks.
ReaderBlocks(p) ==
    /\ pc[p] = "get_lock"
    /\ p \notin rw.blocked \cup rw.admitted
    /\ rw.pending # 0 \/ mu.w
    /\ rw' = [rw EXCEPT !.blocked = @ \cup {p}]
    /\ ret' = NoReturn
    /\ logged' = NoLog
    /\ UNCHANGED <<store, mu, pc, req, loc, snap, last, how, gwvars>>

\* s.mu.RLock() returns: no writer was pending or inside, or Unlock let p in.
ReaderAcquire(p) ==
    /\ p \notin rw.blocked
    /\ p \in rw.admitted \/ rw.pending = 0
    /\ GetRLock(p)
    /\ rw' = [rw EXCEPT !.admitted = @ \ {p}]
    /\ UNCHANGED gwvars

\* The statements inside the critical sections.
LiveInside(p) ==
    /\ SetAssign(p) \/ SetStore(p) \/ GetLookup(p) \/ DeleteLookup(p) \/ DeleteRemove(p)
    /\ UNCHANGED <<rw, gwvars>>

\* The return of a writer: its deferred Unlock lets the blocked readers in.
WriterReturn(p) ==
    /\ SetReturn(p) \/ DeleteReturn(p)
    /\ rw' = [rw EXCEPT !.admitted = rw.blocked, !.blocked = {}]
    /\ UNCHANGED gwvars

ReaderReturn(p) == GetReturn(p) /\ UNCHANGED <<rw, gwvars>>

LiveNext ==
    \/ \E p \in Procs : LiveSetCall(p)
    \/ \E p \in Procs : LiveGetCall(p)
    \/ \E p \in Procs : LiveDeleteCall(p)
    \/ \E p \in Procs : WriterPending(p)
    \/ \E p \in Procs : WriterAcquire(p)
    \/ \E p \in Procs : ReaderBlocks(p)
    \/ \E p \in Procs : ReaderAcquire(p)
    \/ \E p \in Procs : LiveInside(p)
    \/ \E p \in Procs : WriterReturn(p)
    \/ \E p \in Procs : ReaderReturn(p)

\* The steps of goroutine p in a call that depend on the scheduler alone.
Step(p) ==
    \/ WriterAcquire(p) \/ ReaderBlocks(p) \/ ReaderAcquire(p)
    \/ LiveInside(p) \/ WriterReturn(p) \/ ReaderReturn(p)

\* Fair scheduling: a goroutine that can take a step takes it, and a writer
\* that keeps getting the chance of its turn among the writers gets it.  No
\* call is ever required to be made.
LiveSpec ==
    /\ Init /\ [][LiveNext]_vars
    /\ \A p \in Procs : WF_vars(Step(p)) /\ SF_vars(WriterPending(p))

----------------------------------------------------------------------------
\* Properties of the storage engine.  ret is the call that has just returned:
\* ret.prev is the write that returned last on its key before it, ret.before
\* the store as it acquired the mutex, and ret.how # "late" says that no
\* write of its key returned between its call and its return.

\* C1: once Set(k, v) has returned, a Get(k) with no Delete(k) and no other
\* Set(k, _) returning in between returns found = true and value = v.
C1_GetAfterSet ==
    (ret.op = "Get" /\ ret.how # "late" /\ ret.prev.op = "Set")
        => /\ ret.resp.found
           /\ ret.resp.value = ret.prev.value
           /\ ret.resp.err = "nil"

C1_Witness ==
    /\ ret.op = "Get" /\ ret.how # "late" /\ ret.prev.op = "Set"
    /\ ret.key = "a" /\ ret.resp.found /\ ret.resp.value = <<"x">>

\* C2: Set rejects no input: for every key and value, the empty key and the
\* empty value included, it returns success = true with no error and the
\* entry is then in the store with that value; Set("", x) followed by Get("")
\* returns found = true and value = x.
C2_SetAlwaysSucceeds ==
    /\ ret.op = "Set"
        => /\ ret.resp.success
           /\ ret.resp.err = "nil"
           /\ MapLookup(store, ret.key) = [found |-> TRUE, value |-> ret.value]
    /\ (ret.op = "Get" /\ ret.key = "" /\ ret.how \in Alone /\ ret.prev.op = "Set")
        => (ret.resp.found /\ ret.resp.value = ret.prev.value)

C2_Witness ==
    /\ ret.op = "Get" /\ ret.key = "" /\ ret.how \in Alone
    /\ ret.prev = [op |-> "Set", value |-> <<"x">>]
    /\ ret.resp.found /\ ret.resp.value = <<"x">>

\* C3: Delete(k) of a key that is not in the store returns success = false
\* and leaves the whole store as it was.
C3_DeleteAbsent ==
    (ret.op = "Delete" /\ ret.key \notin DOMAIN ret.before)
        => /\ ~ret.resp.success
           /\ ret.resp.err = "nil"
           /\ store = ret.before

C3_Witness ==
    /\ ret.op = "Delete" /\ ret.key \notin DOMAIN ret.before
    /\ ret.before # EmptyMap
    /\ ~ret.resp.success /\ store = ret.before

\* C4: Delete(k) of a key that is in the store returns success = true and
\* removes the entry, and a following Get(k) with no Set(k, _) returning in
\* between returns found = false.
C4_DeletePresent ==
    /\ (ret.op = "Delete" /\ ret.key \in DOMAIN ret.before)
        => (ret.resp.success /\ ret.key \notin DOMAIN store)
    /\ (ret.op = "Get" /\ ret.how # "late" /\ ret.prev.op = "Delete")
        => ~ret.resp.found

C4_Witness ==
    /\ ret.op = "Get" /\ ret.how = "alone_deleted" /\ ret.prev.op = "Delete"
    /\ ~ret.resp.found

\* C5: Delete is idempotent: a Delete(k) that follows a Delete(k) with no
\* Set(k, _) returning in between returns success = false and leaves the
\* store as it was.
C5_DeleteIdempotent ==
    (ret.op = "Delete" /\ ret.how # "late" /\ ret.prev.op = "Delete")
        => (~ret.resp.success /\ store = ret.before)

C5_Witness ==
    /\ ret.op = "Delete" /\ ret.how = "alone_deleted" /\ ret.prev.op = "Delete"
    /\ ~ret.resp.success /\ store = ret.before

\* C6: last write wins for sequential writes: Set(k, v1), then Set(k, v2)
\* with v2 # v1, then Get(k) returns found = true and value = v2, and the
\* store holds v2 and nothing else for k.
C6_LastWriteWins ==
    (ret.op = "Get" /\ ret.how = "alone_over")
        => /\ ret.prev.op = "Set"
           /\ ret.resp.found
           /\ ret.resp.value = ret.prev.value
           /\ ret.key \in DOMAIN store
           /\ store[ret.key] = StringHeader(ret.prev.value)

C6_Witness ==
    /\ ret.op = "Get" /\ ret.how = "alone_over"
    /\ ret.prev = [op |-> "Set", value |-> << >>]
    /\ ret.resp.found /\ ret.resp.value = << >>

\* C7: Get of a key that is not in the store returns found = false with an
\* empty value, and Get leaves the store as it was, the key present or not.
C7_GetNoEffect ==
    ret.op = "Get"
        => /\ store = ret.before
           /\ ret.key \notin DOMAIN ret.before
                => (~ret.resp.found /\ ret.resp.value = << >>)
           /\ ret.key \in DOMAIN ret.before => ret.resp.found

C7_Witness ==
    /\ ret.op = "Get" /\ ret.key \notin DOMAIN ret.before
    /\ ret.before # EmptyMap
    /\ ~ret.resp.found /\ store = ret.before

\* C8: reader/writer exclusion: while a Set or Delete is inside its critical
\* section no other Set, Delete or Get is inside its critical section; the
\* mutex records one writer or the number of readers inside.
C8_Exclusion ==
    /\ \A p, q \in Procs :
         (p # q /\ pc[p] \in WriterInside) => pc[q] \notin (WriterInside \cup ReaderInside)
    /\ mu.w <=> (\E p \in Procs : pc[p] \in WriterInside)
    /\ mu.r = Cardinality({p \in Procs : pc[p] \in ReaderInside})

\* Every goroutine is inside the critical section of a Get at the same time.
C8_Witness ==
    /\ \A p \in Procs : pc[p] \in ReaderInside
    /\ mu.r = NumProcs

\* C9: a Get(k) that runs concurrently with Set(k, _) calls returns no torn
\* or partial value: found = false, or found = true with the complete value
\* of a Set(k, v), the one that returned last.
C9_NoTornRead ==
    (ret.op = "Get" /\ ret.resp.found)
        => /\ ret.resp.value \in Values
           /\ ret.prev.op = "Set"
           /\ ret.resp.value = ret.prev.value

\* A Get returns x after a Set of its key returned during the Get and while
\* another Set of its key is under way.
C9_Witness ==
    /\ ret.op = "Get" /\ ret.how = "late"
    /\ ret.resp.found /\ ret.resp.value = <<"x">>
    /\ \E q \in Procs : pc[q] # "idle" /\ req[q].op = "Set" /\ req[q].key = ret.key

\* C10: of two concurrent Set(k, v1) and Set(k, v2) the one that acquires the
\* write lock last returns last, and once both have returned the store holds
\* its value for k: no third value, and k is not absent.
C10_ConcurrentSets ==
    /\ (Overwrote(ret) /\ ret.how = "late")
        => MapLookup(store, ret.key) = [found |-> TRUE, value |-> ret.value]
    /\ \A k \in Keys :
         (\A q \in Procs : ~(pc[q] \in WriterInside /\ req[q].key = k))
            => MapLookup(store, k) =
                 IF last[k].op = "Set"
                 THEN [found |-> TRUE, value |-> last[k].value]
                 ELSE [found |-> FALSE, value |-> << >>]

\* Both have returned, the Set of x after the overlapping Set of the empty
\* value.
C10_Witness ==
    /\ Overwrote(ret) /\ ret.how = "late"
    /\ ret.value = <<"x">> /\ ret.prev.value = << >>
    /\ MapLookup(store, ret.key) = [found |-> TRUE, value |-> <<"x">>]

\* The other order: the Set of the empty value after the overlapping Set of x.
C10_OtherOrder ==
    /\ Overwrote(ret) /\ ret.how = "late"
    /\ ret.value = << >> /\ ret.prev.value = <<"x">>
    /\ MapLookup(store, ret.key) = [found |-> TRUE, value |-> << >>]

----------------------------------------------------------------------------
\* Properties of the API server.  gwret is the answer a handler has just
\* written: gwret.req is its HTTP request, gwret.call the request it handed to
\* kvClient (NoRequest when it made no call), gwret.resp and gwret.err what
\* kvClient returned, gwret.status and gwret.body what c.JSON wrote.

\* C11: a POST /kv whose payload lacks the key field, the value field or both
\* is answered with status 400 in a step that makes no call to the storage
\* service and leaves the store as it was.
C11_MissingFieldRejected ==
    [][(gwret'.req.op = "Set" /\ gwret'.req.has # Fields)
          => /\ gwret'.status = StatusBadRequest
             /\ gwret'.call = NoRequest
             /\ store' = store /\ pc' = pc /\ req' = req]_vars

C11_Witness ==
    /\ gwret.req.op = "Set" /\ gwret.req.has = {"key"} /\ gwret.req.key = "a"
    /\ gwret.status = StatusBadRequest /\ MapLookup(store, "a").found

\* C12: a POST /kv that carries both fields, either of them possibly the empty
\* string, is not rejected: unless the call fails, the storage service's Set
\* is called with that key and value and the answer is 200 with success.
C12_EmptyAccepted ==
    (gwret.req.op = "Set" /\ gwret.req.has = Fields /\ gwret.err = "nil")
        => /\ gwret.status = StatusOK
           /\ gwret.body.success
           /\ gwret.call = [op |-> "Set", key |-> gwret.req.key, value |-> gwret.req.value]

\* What a client reads from the body of a GET /kv/:key answer: json decoding
\* into a GetResponse, where a field the body lacks keeps the empty string.
DecodeGetResponse(body) ==
    [Found |-> body.found,
     Key |-> IF "key" \in DOMAIN body THEN body.key ELSE "",
     Value |-> IF "value" \in DOMAIN body THEN body.value ELSE << >>]

\* C13: a GET /kv/:key with a key, whose call returned without error, is
\* answered 404 with found = false when the response says found = false, and
\* otherwise 200 with found = true and, as the client decodes it, the value of
\* the response.
C13_RetrieveMapping ==
    (gwret.req.op = "Get" /\ gwret.req.key # "" /\ gwret.err = "nil")
        => /\ gwret.call = [op |-> "Get", key |-> gwret.req.key, value |-> << >>]
           /\ IF ~gwret.resp.found
              THEN /\ gwret.status = StatusNotFound
                   /\ ~DecodeGetResponse(gwret.body).Found
              ELSE /\ gwret.status = StatusOK
                   /\ DecodeGetResponse(gwret.body).Found
                   /\ DecodeGetResponse(gwret.body).Value = gwret.resp.value

C13_Witness ==
    /\ gwret.req.op = "Get" /\ gwret.req.key = "a" /\ gwret.err = "nil"
    /\ gwret.resp.found /\ gwret.resp.value = <<"x">>
    /\ gwret.status = StatusOK /\ gwret.body.value = <<"x">>

\* C14: a DELETE /kv/:key whose call returned without error is answered 404
\* with success = false when the response says success = false, and otherwise
\* 200 with success = true.
C14_RemoveMapping ==
    (gwret.req.op = "Delete" /\ gwret.req.key # "" /\ gwret.err = "nil")
        => /\ gwret.call = [op |-> "Delete", key |-> gwret.req.key, value |-> << >>]
           /\ IF ~gwret.resp.success
              THEN gwret.status = StatusNotFound /\ ~gwret.body.success
              ELSE gwret.status = StatusOK /\ gwret.body.success

C14_Witness ==
    /\ gwret.req.op = "Delete" /\ gwret.req.key = "a" /\ gwret.err = "nil"
    /\ ~gwret.resp.success /\ gwret.status = StatusNotFound /\ ~gwret.body.success

\* C15: a call that ends in a transport error is answered 500 and never 404;
\* 404 is answered only when the call returned without error a response with
\* found = false (Get) or success = false (Delete).
C15_ErrorNotConflated ==
    /\ gwret.err # "nil" => gwret.status = StatusInternalServerError
    /\ gwret.status = StatusNotFound
          => /\ gwret.err = "nil"
             /\ gwret.call.op \in {"Get", "Delete"}
             /\ gwret.resp.op = gwret.call.op
             /\ gwret.call.op = "Get" => ~gwret.resp.found
             /\ gwret.call.op = "Delete" => ~gwret.resp.success

C15_Witness ==
    /\ gwret.req.op = "Get" /\ gwret.req.key = "a" /\ gwret.err = "Unavailable"
    /\ gwret.status = StatusInternalServerError /\ "error" \in DOMAIN gwret.body

\* C16: every handler that waits for its call comes to its answer, and the
\* answer to a call that reached its deadline is 500.
C16_AlwaysAnswered ==
    /\ \A g \in Procs : (gw[g].st = "wait") ~> (gw[g].st = "idle")
    /\ [](gwret.err = "DeadlineExceeded" => gwret.status = StatusInternalServerError)

C16_Witness ==
    /\ gwret.req.op = "Set" /\ gwret.err = "DeadlineExceeded"
    /\ gwret.status = StatusInternalServerError

\* C17: on a storage service that starts empty, the requests POST /kv {a, x},
\* GET /kv/a, DELETE /kv/a, GET /kv/a made one after another with no failure
\* are answered 200 success, 200 found with value x, 200 success and 404 not
\* found.
C17_EndToEnd ==
    (scen.live /\ gwret.req.op # "none")
        => /\ gwret.req = Scenario[scen.at]
           /\ scen.at = 1 => gwret.status = StatusOK /\ gwret.body.success
           /\ scen.at = 2 => /\ gwret.status = StatusOK /\ gwret.body.found
                             /\ "value" \in DOMAIN gwret.body
                             /\ gwret.body.value = <<"x">>
           /\ scen.at = 3 => gwret.status = StatusOK /\ gwret.body.success
           /\ scen.at = 4 => gwret.status = StatusNotFound /\ ~gwret.body.found

C17_Witness ==
    /\ scen.live /\ scen.at = 4 /\ gwret.req = GetKV("a")
    /\ gwret.status = StatusNotFound /\ ~gwret.body.found
    /\ store = EmptyMap

\* C18: a GET or DELETE /kv/:key without a key is answered with status 400 in
\* a step that makes no call to the storage service.
C18_MissingKeyRejected ==
    [][(gwret'.req.op \in {"Get", "Delete"} /\ gwret'.req.key = "")
          => /\ gwret'.status = StatusBadRequest
             /\ gwret'.call = NoRequest
             /\ store' = store /\ pc' = pc /\ req' = req]_vars

C18_Witness ==
    /\ gwret.req.op = "Delete" /\ gwret.req.key = "" /\ gwret.status = StatusBadRequest
    /\ "a" \in DOMAIN store

\* C19: the body of every 200 answer to GET /kv/:key carries found = true,
\* the key, the message and the field value, equal to the value of the
\* response of the storage service, the empty string included.
C19_ValuePresent ==
    (gwret.req.op = "Get" /\ gwret.status = StatusOK)
        => /\ gwret.body.found
           /\ "message" \in DOMAIN gwret.body
           /\ "key" \in DOMAIN gwret.body /\ gwret.body.key = gwret.req.key
           /\ "value" \in DOMAIN gwret.body /\ gwret.body.value = gwret.resp.value

\* C20: no log.Printf is made by a goroutine that holds the mutex.
C20_NoLogUnderLock ==
    logged.by \in Procs => ~HoldsLock(logged.by)

----------------------------------------------------------------------------
\* Further properties of the storage service.

\* C22: every return of Set, Get and Delete carries a nil error; Set reports
\* success, and a key that was absent when the call acquired the mutex is
\* reported by found = false (Get) or success = false (Delete) and by nothing
\* else.
C22_NoError ==
    ret.op # "none"
        => /\ ret.resp.err = "nil"
           /\ ret.op = "Set" => ret.resp.success
           /\ ret.op = "Get" => (ret.resp.found <=> ret.key \in DOMAIN ret.before)
           /\ ret.op = "Delete" => (ret.resp.success <=> ret.key \in DOMAIN ret.before)

C22_Witness ==
    /\ ret.op = "Delete" /\ ret.key = "a" /\ ret.key \notin DOMAIN ret.before
    /\ ~ret.resp.success /\ ret.resp.err = "nil"

\* The sequential store: the map from key to value that callers see in m,
\* the map after operation r on it, and the flags and value r returns on it.
Abs(m) == [k \in DOMAIN m |-> Content(m[k])]
SeqApply(a, r) ==
    IF r.op = "Set"
    THEN [x \in DOMAIN a \cup {r.key} |-> IF x = r.key THEN r.value ELSE a[x]]
    ELSE IF r.op = "Delete"
    THEN [x \in DOMAIN a \ {r.key} |-> a[x]]
    ELSE a
SeqResult(a, r) ==
    [success |-> r.op = "Set" \/ (r.op = "Delete" /\ r.key \in DOMAIN a),
     found |-> r.op = "Get" /\ r.key \in DOMAIN a,
     value |-> IF r.op = "Get" /\ r.key \in DOMAIN a THEN a[r.key] ELSE << >>]

\* C24: every execution is that of the operations applied one at a time in
\* the order in which they acquire the mutex, a point between call and
\* return: each call returns what the sequential operation returns on the
\* store it found at that point and leaves the store the sequential operation
\* leaves; a reader inside sees that store throughout; and with no writer
\* inside the store holds, for every key, the write that returned last.
C24_Linearizable ==
    /\ ret.op # "none"
          => /\ [success |-> ret.resp.success, found |-> ret.resp.found,
                 value |-> ret.resp.value] = SeqResult(Abs(ret.before), ret)
             /\ Abs(store) = SeqApply(Abs(ret.before), ret)
    /\ \A p \in Procs : pc[p] \in ReaderInside => Abs(store) = Abs(snap[p])
    /\ (\A p \in Procs : pc[p] \notin WriterInside)
          => \A k \in Keys :
                 MapLookup(store, k) =
                    IF last[k].op = "Set"
                    THEN [found |-> TRUE, value |-> last[k].value]
                    ELSE [found |-> FALSE, value |-> << >>]

\* A Get that found x returns while the Set of another value to its key, called
\* during the Get, waits for the mutex.
C24_Witness ==
    /\ ret.op = "Get" /\ ret.resp.found /\ ret.resp.value = <<"x">>
    /\ \E q \in Procs : /\ pc[q] = "set_lock" /\ req[q].key = ret.key
                         /\ req[q].value = << >>
    /\ ret.how = "conc"

\* C25: a Set or Delete of key k leaves every other key as it was when the
\* call acquired the mutex: present or absent, and with the same value.
C25_Frame ==
    IsWrite(ret)
        => \A k \in Keys \ {ret.key} : MapLookup(store, k) = MapLookup(ret.before, k)

C25_Witness ==
    /\ ret.op = "Delete" /\ ret.key = "a" /\ ret.resp.success
    /\ MapLookup(store, "") = [found |-> TRUE, value |-> <<"x">>]

----------------------------------------------------------------------------
\* Further properties of the API server.

\* C23: a handler makes at most one call of kvClient for its request: none
\* when it rejects the request, one otherwise, and the answer to a call that
\* failed or reached its deadline is written after that one call.
C23_NoRetry ==
    /\ \A g \in Procs : gw[g].calls = IF gw[g].st = "wait" THEN 1 ELSE 0
    /\ gwret.calls = IF gwret.call = NoRequest THEN 0 ELSE 1
    /\ gwret.err # "nil" => gwret.calls = 1 /\ gwret.status = StatusInternalServerError

C23_Witness ==
    /\ gwret.req.op = "Delete" /\ gwret.err = "DeadlineExceeded" /\ gwret.calls = 1
    /\ gwret.status = StatusInternalServerError

\* C26: the answer of SetHandler to a call that returned depends on the error
\* alone: 500 with an error, and with a nil error 200 with the success flag
\* and the message of the response, success = false included.
C26_StoreStatus ==
    (gwret.req.op = "Set" /\ gwret.call.op = "Set")
        => IF gwret.err # "nil"
           THEN gwret.status = StatusInternalServerError
           ELSE /\ gwret.status = StatusOK
                /\ gwret.body.success = gwret.resp.success
                /\ gwret.body.message = gwret.resp.message

C26_Witness ==
    /\ gwret.req.op = "Set" /\ gwret.err = "nil" /\ ~gwret.resp.success
    /\ gwret.status = StatusOK /\ ~gwret.body.success

\* C21: under fair scheduling every call of Set, Get and Delete returns, and
\* every return releases the mutex: with all goroutines at rest the mutex is
\* free and no goroutine waits in it.  No state is a deadlock: while a call
\* is in progress some goroutine in a call can take a step.
C21_Terminates ==
    /\ \A p \in Procs : (pc[p] # "idle") ~> (pc[p] = "idle")
    /\ []((\A p \in Procs : pc[p] = "idle") => mu = FreeMutex /\ rw = NoWaiters)
    /\ []((\E p \in Procs : pc[p] # "idle")
             => ENABLED (\E p \in Procs : Step(p) \/ WriterPending(p)))

\* Delete returns early for the absent key and its Unlock lets in a reader
\* that blocked behind it.
C21_Witness ==
    /\ ret.op = "Delete" /\ ~ret.resp.success /\ mu = FreeMutex
    /\ rw.admitted # {}

====
